---------------------------- MODULE Spec2Model ----------------------------
(***************************************************************************)
(* Model of sandro-sikic/maker (src/index.js): the command runner `run`    *)
(* with its bounded output capture, and the shutdown coordinator `onExit`. *)
(*                                                                         *)
(* A JavaScript string is a sequence of characters, a Buffer a sequence    *)
(* of bytes.  ASCII characters and their bytes are written alike ("a",     *)
(* "\n", "\r"); the two-byte UTF-8 character U+00E9 is the bytes           *)
(* "0xC3" "0xA9" and the character "U+00E9".  null is the empty sequence   *)
(* and a present value v is <<v>>.                                         *)
(***************************************************************************)
EXTENDS Integers, Sequences, FiniteSets, TLC

VARIABLES
    runs,          \* per invocation of run(): its closure state (see NewRun)
    parentStdout,  \* the strings written with process.stdout.write, in order
    parentStderr,  \* the strings written with process.stderr.write, in order
    handlers,      \* per onExit registration: its closure state
    listeners,     \* process signal listeners: signal -> handler ids, in order
    exitStatus,    \* null while the process lives, else <<status>>
    log,           \* console.error('onExit callback error:', ...): handler ids
    onExitThrown,  \* calls of onExit that threw the TypeError
    signalsSent,   \* signals delivered to the process so far
    trim,          \* trimToLastNLines applied to s with n, again and again:
                   \* [s, n, out] with out the results so far
    files,         \* the config files: path -> null (no such file) or <<text>>
    typesFile,     \* storage.generated.d.ts: null or <<its lines>>
    overridePath,  \* _overrideConfigPath
    storeCall      \* the last call of init, save or load and how it ended;
                   \* for init also the terminal it found and whether it
                   \* printed the diagnostic with console.error

vars == <<runs, parentStdout, parentStderr,
          handlers, listeners, exitStatus, log, onExitThrown, signalsSent, trim,
          files, typesFile, overridePath, storeCall>>
storeVars == <<files, typesFile, overridePath, storeCall>>
runVars == <<runs, parentStdout, parentStderr>>
exitVars == <<handlers, listeners, exitStatus, log, onExitThrown, signalsSent>>

---------------------------------------------------------------------------
(* Bounds of the model *)

\* total number of bytes one child emits on stdout and stderr together
MaxStream == 3
\* largest explicit opts.maxLines tried (0 .. MaxLinesBound)
MaxLinesBound == 2
\* number of onExit registrations
MaxHandlers == 2
\* number of signal deliveries
MaxSignals == 2
\* total number of bytes of the child writing plain lines (SpecText)
MaxText == 5
\* longest string trimToLastNLines is applied to on its own (SpecTrim)
MaxTrimLen == 4
\* number of times it is applied in a row
MaxTrimCalls == 2
\* total number of bytes two concurrent children emit together (SpecConc)
MaxConcBytes == 3
\* calls of onExit where the disposer of one of several handlers is studied
MaxDisposeHandlers == 3

(* Program constants *)

\* const { maxLines = 10000, ...forwardedOpts } = opts
DefaultMaxLines == 10000

---------------------------------------------------------------------------
(* JavaScript values *)

Null == <<>>
Some(v) == <<v>>

LF == "\n"
CR == "\r"

\* the bytes a child writes in this model
Bytes == {"a", LF, CR, "0xC3", "0xA9"}
AsciiBytes == {"a", LF, CR}

\* String.prototype.trim()'s white space
WhiteSpace == {" ", "\t", LF, CR}

Min(a, b) == IF a < b THEN a ELSE b
Max(a, b) == IF a > b THEN a ELSE b

\* all sequences over S of length lo..hi
SeqsOfLen(S, lo, hi) == UNION {[1..n -> S] : n \in lo..hi}

---------------------------------------------------------------------------
(* chunk.toString(): Buffer -> string, UTF-8 decoding.  A lead byte with   *)
(* its continuation byte is one character; a lead byte without one, or a   *)
(* continuation byte on its own, decodes to U+FFFD.                        *)

RECURSIVE DecodeFrom(_, _)
DecodeFrom(b, i) ==
    IF i > Len(b) THEN <<>>
    ELSE IF b[i] \in AsciiBytes THEN <<b[i]>> \o DecodeFrom(b, i + 1)
    ELSE IF b[i] = "0xC3" /\ i < Len(b) /\ b[i + 1] = "0xA9"
         THEN <<"U+00E9">> \o DecodeFrom(b, i + 2)
    ELSE <<"U+FFFD">> \o DecodeFrom(b, i + 1)

toString(chunk) == DecodeFrom(chunk, 1)

\* process.stdout.write(s): the bytes a written string puts on the stream
RECURSIVE Utf8Bytes(_)
Utf8Bytes(s) ==
    IF s = <<>> THEN <<>>
    ELSE (CASE Head(s) = "U+00E9" -> <<"0xC3", "0xA9">>
            [] Head(s) = "U+FFFD" -> <<"0xEF", "0xBF", "0xBD">>
            [] OTHER -> <<Head(s)>>) \o Utf8Bytes(Tail(s))

---------------------------------------------------------------------------
(* trimToLastNLines and the regular expressions it uses *)

\* /(?:\r?\n)$/.test(s)
hadTrailingNewline(s) == Len(s) > 0 /\ s[Len(s)] = LF

\* s.replace(/(?:\r?\n)+$/g, ''): the longest suffix made of \n and \r\n goes
RECURSIVE StripTrailingNewlines(_)
StripTrailingNewlines(s) ==
    IF Len(s) >= 2 /\ s[Len(s)] = LF /\ s[Len(s) - 1] = CR
    THEN StripTrailingNewlines(SubSeq(s, 1, Len(s) - 2))
    ELSE IF Len(s) >= 1 /\ s[Len(s)] = LF
    THEN StripTrailingNewlines(SubSeq(s, 1, Len(s) - 1))
    ELSE s

\* s.split(/\r?\n/): scanning left to right, "\r\n" or "\n" ends a piece
RECURSIVE SplitFrom(_, _, _)
SplitFrom(s, i, cur) ==
    IF i > Len(s) THEN <<cur>>
    ELSE IF s[i] = LF THEN <<cur>> \o SplitFrom(s, i + 1, <<>>)
    ELSE IF s[i] = CR /\ i < Len(s) /\ s[i + 1] = LF
         THEN <<cur>> \o SplitFrom(s, i + 2, <<>>)
    ELSE SplitFrom(s, i + 1, Append(cur, s[i]))

SplitLines(s) == SplitFrom(s, 1, <<>>)

\* (s.match(/\r?\n/g) || []).length
NewlineMatches(s) == Len(SplitLines(s)) - 1

\* lines.join('\n')
RECURSIVE JoinLF(_)
JoinLF(lines) ==
    IF lines = <<>> THEN <<>>
    ELSE IF Len(lines) = 1 THEN lines[1]
    ELSE lines[1] \o <<LF>> \o JoinLF(Tail(lines))

\* Array.prototype.slice(start): a negative start counts from the end
Slice(arr, start) ==
    LET from == IF start < 0 THEN Max(Len(arr) + start, 0)
                ELSE Min(start, Len(arr))
    IN  SubSeq(arr, from + 1, Len(arr))

trimToLastNLines(s, n) ==
    IF s = <<>> THEN s
    ELSE LET had == hadTrailingNewline(s)
             trimmed == StripTrailingNewlines(s)
             lines == SplitLines(trimmed)
         IN  IF Len(lines) <= n
             THEN (IF had THEN trimmed \o <<LF>> ELSE trimmed)
             ELSE LET out == JoinLF(Slice(lines, 0 - n))
                  IN  IF had THEN out \o <<LF>> ELSE out

---------------------------------------------------------------------------
(* run(command, opts) *)

RunIds == {1}

\* exit codes a child is closed with; null is a child killed by a signal
ExitCodes == {Some(0), Some(3), Null}
LaunchErrors == {"ENOENT"}

\* values passed as `command`
Commands ==
    { [type |-> "string", val |-> <<"l", "s">>],
      [type |-> "string", val |-> <<>>],
      [type |-> "string", val |-> <<" ", "\t", LF>>],
      [type |-> "number", val |-> <<>>],
      [type |-> "undefined", val |-> <<>>] }

\* values passed as `opts`: maxLines left out, or given
OptsChoices == {[maxLines |-> m] : m \in {Null} \cup {Some(n) : n \in 0..MaxLinesBound}}

\* an option a caller may give besides maxLines: left out (null) or a value
OptionalOf(values) == {Null} \cup {Some(v) : v \in values}

\* the object { maxLines, shell, stdio, cwd } with the fields that are given;
\* maxLines is undefined when null
OptsObject(m, shell, stdio, cwd) ==
    [k \in {"maxLines"} \cup (IF shell = Null THEN {} ELSE {"shell"})
                        \cup (IF stdio = Null THEN {} ELSE {"stdio"})
                        \cup (IF cwd = Null THEN {} ELSE {"cwd"}) |->
        CASE k = "maxLines" -> m
          [] k = "shell" -> shell[1]
          [] k = "stdio" -> stdio[1]
          [] OTHER -> cwd[1]]

\* values passed as `opts` with options meant for spawn
SpawnOptsChoices ==
    {OptsObject(m, shell, stdio, cwd) :
        m \in {Null, Some(1)},
        shell \in OptionalOf({"false", "/bin/sh"}),
        stdio \in OptionalOf({"inherit", "pipe"}),
        cwd \in OptionalOf({"/tmp"})}

\* command.trim()
RECURSIVE TrimStart(_)
TrimStart(s) ==
    IF s # <<>> /\ Head(s) \in WhiteSpace THEN TrimStart(Tail(s)) ELSE s

RECURSIVE TrimEnd(_)
TrimEnd(s) ==
    IF s # <<>> /\ s[Len(s)] \in WhiteSpace
    THEN TrimEnd(SubSeq(s, 1, Len(s) - 1)) ELSE s

Trim(s) == TrimEnd(TrimStart(s))

\* mutant: the command is not trimmed before the test
InvalidCommandNoTrim(command) ==
    command.type # "string" \/ command.val = <<>>

\* typeof command !== 'string' || !command.trim()
InvalidCommand(command) ==
    command.type # "string" \/ Trim(command.val) = <<>>

\* const { maxLines = 10000, ...forwardedOpts } = opts
MaxLinesOf(opts) ==
    IF opts.maxLines = Null THEN DefaultMaxLines ELSE opts.maxLines[1]

\* mutant: maxLines is forwarded with the other options
ForwardedOptsAll(opts) == opts

\* const { maxLines = 10000, ...forwardedOpts } = opts
ForwardedOpts(opts) == [k \in DOMAIN opts \ {"maxLines"} |-> opts[k]]

\* Object.assign(target, source): the fields of source win
ObjectAssign(target, source) ==
    [k \in DOMAIN target \cup DOMAIN source |->
        IF k \in DOMAIN source THEN source[k] ELSE target[k]]

\* { shell: true, stdio: 'pipe' }
SpawnDefaults == [shell |-> "true", stdio |-> "pipe"]

\* const spawnOpts = Object.assign({ shell: true, stdio: 'pipe' }, forwardedOpts)
SpawnOpts(opts) == ObjectAssign(SpawnDefaults, ForwardedOpts(opts))

\* the closure of one invocation, before run is called
NewRun ==
    [ pc        |-> "idle",     \* idle, rejected, pending, resolved
      command   |-> Null,       \* the command run was called with
      thrown    |-> Null,       \* the error the returned promise rejects with
      maxLines  |-> 0,
      opts      |-> Null,       \* the opts run was called with
      spawnOpts |-> Null,       \* the options spawn was called with
      spawned   |-> 0,          \* calls of spawn
      hasStdout |-> FALSE,      \* child.stdout is a stream (not null)
      hasStderr |-> FALSE,
      stdout    |-> <<>>,       \* let stdout = ''
      stderr    |-> <<>>,       \* let stderr = ''
      result    |-> Null,       \* the value the promise resolved with
      chunksOut |-> <<>>,       \* the chunks child.stdout emitted so far
      chunksErr |-> <<>>,
      childError |-> Null,      \* the error the child emitted with 'error'
      closed    |-> FALSE,      \* the child emitted 'close', its last event
      closeCode |-> Null ]      \* the code it emitted with 'close'

RECURSIVE Concat(_)
Concat(ss) == IF ss = <<>> THEN <<>> ELSE Head(ss) \o Concat(Tail(ss))

BytesEmitted(run) == Len(Concat(run.chunksOut)) + Len(Concat(run.chunksErr))

\* the child writes UTF-8 text: a continuation byte only follows its lead
\* byte (a lead byte may be the last byte written so far)
RECURSIVE Utf8From(_, _)
Utf8From(b, i) ==
    IF i > Len(b) THEN TRUE
    ELSE IF b[i] \in AsciiBytes THEN Utf8From(b, i + 1)
    ELSE IF b[i] = "0xC3"
         THEN i = Len(b) \/ (b[i + 1] = "0xA9" /\ Utf8From(b, i + 2))
    ELSE FALSE

\* the chunks a stream that emitted `chunks` may emit next: the pipe cuts
\* the text into chunks anywhere, also inside a character
ChunksLeft(run, chunks) ==
    {c \in SeqsOfLen(Bytes, 1, MaxStream - BytesEmitted(run)) :
        Utf8From(Concat(chunks) \o c, 1)}

\* mutant: the 'data' listeners are attached without testing that the
\* stream exists, which throws for a child without stdout or stderr
CallRunNoStreamTest(r, command, opts, out, err) ==
    /\ runs[r].pc = "idle"
    /\ IF InvalidCommand(command)
       THEN runs' = [runs EXCEPT ![r].pc = "rejected",
                                 ![r].command = Some(command),
                                 ![r].thrown = Some("TypeError")]
       ELSE runs' = [runs EXCEPT ![r].pc = IF out /\ err THEN "pending" ELSE "rejected",
                                 ![r].thrown = IF out /\ err THEN Null ELSE Some("TypeError"),
                                 ![r].command = Some(command),
                                 ![r].maxLines = MaxLinesOf(opts),
                                 ![r].opts = Some(opts),
                                 ![r].spawnOpts = Some(SpawnOpts(opts)),
                                 ![r].spawned = @ + 1,
                                 ![r].hasStdout = out,
                                 ![r].hasStderr = err]
    /\ UNCHANGED <<parentStdout, parentStderr, exitVars, trim, storeVars>>

\* async function run: an invalid command rejects the returned promise
\* before spawn; otherwise the child is spawned and the promise is pending.
CallRun(r, command, opts, out, err) ==
    /\ runs[r].pc = "idle"
    /\ IF InvalidCommand(command)
       THEN runs' = [runs EXCEPT ![r].pc = "rejected",
                                 ![r].command = Some(command),
                                 ![r].thrown = Some("TypeError")]
       ELSE runs' = [runs EXCEPT ![r].pc = "pending",
                                 ![r].command = Some(command),
                                 ![r].maxLines = MaxLinesOf(opts),
                                 ![r].opts = Some(opts),
                                 ![r].spawnOpts = Some(SpawnOpts(opts)),
                                 ![r].spawned = @ + 1,
                                 ![r].hasStdout = out,
                                 ![r].hasStderr = err]
    /\ UNCHANGED <<parentStdout, parentStderr, exitVars, trim, storeVars>>

\* mutant: the buffer is never trimmed while streaming
CaptureAll(buf, s, maxLines) == buf \o s

\* the capture buffer after a data chunk s: append, trim if exceeded
Capture(buf, s, maxLines) ==
    LET b == buf \o s
    IN  IF NewlineMatches(b) > maxLines THEN trimToLastNLines(b, maxLines) ELSE b

\* what the data handler writes to the parent's stream for a chunk string s
PassThrough(s) == s

\* mutant: one capture buffer at module level, shared by all invocations
StdoutDataSharedBuffer(r, chunk) ==
    /\ runs[r].spawned > 0 /\ runs[r].hasStdout /\ ~runs[r].closed
    /\ LET s == toString(chunk)
       IN  /\ runs' = [q \in DOMAIN runs |->
                   [runs[q] EXCEPT
                       !.stdout = Capture(@, s, runs[r].maxLines),
                       !.chunksOut = IF q = r THEN Append(@, chunk) ELSE @]]
           /\ parentStdout' = Append(parentStdout, PassThrough(s))
    /\ UNCHANGED <<parentStderr, exitVars, trim, storeVars>>

\* child.stdout.on('data', ...)
StdoutData(r, chunk) ==
    /\ runs[r].spawned > 0 /\ runs[r].hasStdout /\ ~runs[r].closed
    /\ LET s == toString(chunk)
       IN  /\ runs' = [runs EXCEPT
                   ![r].stdout = Capture(@, s, runs[r].maxLines),
                   ![r].chunksOut = Append(@, chunk)]
           /\ parentStdout' = Append(parentStdout, PassThrough(s))
    /\ UNCHANGED <<parentStderr, exitVars, trim, storeVars>>

\* child.stderr.on('data', ...)
StderrData(r, chunk) ==
    /\ runs[r].spawned > 0 /\ runs[r].hasStderr /\ ~runs[r].closed
    /\ LET s == toString(chunk)
       IN  /\ runs' = [runs EXCEPT
                   ![r].stderr = Capture(@, s, runs[r].maxLines),
                   ![r].chunksErr = Append(@, chunk)]
           /\ parentStderr' = Append(parentStderr, PassThrough(s))
    /\ UNCHANGED <<parentStdout, exitVars, trim, storeVars>>

\* mutant: every call of resolve replaces the value
ResolveAgain(run, value) == [run EXCEPT !.pc = "resolved", !.result = Some(value)]

\* resolve(value) of the promise: only the first call settles it
Resolve(run, value) ==
    IF run.pc = "pending"
    THEN [run EXCEPT !.pc = "resolved", !.result = Some(value)]
    ELSE run

\* mutant: the failure is not put into the result
ErrorResultWithoutError(stdout, stderr, err) ==
    [ output  |-> stdout \o stderr,
      stdout  |-> stdout,
      stderr  |-> stderr,
      code    |-> Null,
      isError |-> TRUE,
      error   |-> Null ]

\* the value resolved by child.on('error', ...)
ErrorResult(stdout, stderr, err) ==
    [ output  |-> stdout \o stderr,
      stdout  |-> stdout,
      stderr  |-> stderr,
      code    |-> Null,
      isError |-> TRUE,
      error   |-> Some(err) ]

\* mutant: the buffers are returned as they stand, without the final trim
CloseResultUntrimmed(stdout, stderr, code, maxLines) ==
    [ output  |-> stdout \o stderr,
      stdout  |-> stdout,
      stderr  |-> stderr,
      code    |-> code,
      isError |-> code # Some(0),
      error   |-> Null ]

\* mutant: isError tells whether there is an exit code
CloseResultErrorIfCode(stdout, stderr, code, maxLines) ==
    [ output  |-> stdout \o stderr,
      stdout  |-> trimToLastNLines(stdout, maxLines),
      stderr  |-> trimToLastNLines(stderr, maxLines),
      code    |-> code,
      isError |-> code # Null,
      error   |-> Null ]

\* the value resolved by child.on('close', ...)
CloseResult(stdout, stderr, code, maxLines) ==
    [ output  |-> stdout \o stderr,
      stdout  |-> trimToLastNLines(stdout, maxLines),
      stderr  |-> trimToLastNLines(stderr, maxLines),
      code    |-> code,
      isError |-> code # Some(0),
      error   |-> Null ]

\* mutant: the listener rejects the promise with the failure
OnErrorRejects(run, err) ==
    IF run.pc = "pending"
    THEN [run EXCEPT !.pc = "rejected", !.thrown = Some(err)]
    ELSE run

\* the listener of the child's 'error' event
OnError(run, err) == Resolve(run, ErrorResult(run.stdout, run.stderr, err))

\* the listener of the child's 'close' event
OnClose(run, code) ==
    Resolve(run, CloseResult(run.stdout, run.stderr, code, run.maxLines))

\* the child emits 'error': it could not be started, killed or signalled
ChildError(r, err) ==
    /\ runs[r].spawned > 0 /\ runs[r].childError = Null /\ ~runs[r].closed
    /\ runs' = [runs EXCEPT ![r] = [OnError(@, err) EXCEPT !.childError = Some(err)]]
    /\ UNCHANGED <<parentStdout, parentStderr, exitVars, trim, storeVars>>

\* the child emits 'close': it ended and its streams are closed
ChildClose(r, code) ==
    /\ runs[r].spawned > 0 /\ ~runs[r].closed
    /\ runs' = [runs EXCEPT ![r] =
           [OnClose(@, code) EXCEPT !.closed = TRUE, !.closeCode = code]]
    /\ UNCHANGED <<parentStdout, parentStderr, exitVars, trim, storeVars>>

---------------------------------------------------------------------------
(* onExit(cb) *)

Signals == {"SIGINT", "SIGTERM", "SIGQUIT"}

\* what a callback passed to onExit does when called: return a value,
\* throw, return a promise that is already rejected (an async function that
\* throws), or return a promise that later resolves, rejects or never settles
CallbackKinds == {"returns", "throws", "rejected", "resolves", "rejects", "hangs"}

\* values passed as `cb`
CbChoices == [type : {"function"}, kind : CallbackKinds]
                 \cup {[type |-> "undefined", kind |-> "returns"],
                       [type |-> "string", kind |-> "returns"]}

\* mutant: the progress indicator is created and started at registration
NewHandlerSpinning(cb, hasStop) ==
    [ cb |-> cb.kind, hasStop |-> hasStop, called |-> FALSE, entered |-> 0,
      invoked |-> 0, cbState |-> "idle", spinner |-> "spinning", exitCalls |-> 0,
      events |-> <<"start">> ]

\* the closure of one registration
NewHandler(cb, hasStop) ==
    [ cb        |-> cb.kind,
      hasStop   |-> hasStop,    \* the spinner object has a stop function
      called    |-> FALSE,      \* let called = false
      entered   |-> 0,          \* runs of `handler`
      invoked   |-> 0,          \* calls of cb
      cbState   |-> "idle",     \* idle, pending, settled
      spinner   |-> "none",     \* none, spinning, stopped
      exitCalls |-> 0,          \* calls of process.exit by this handler
      events    |-> <<>> ]      \* what the handler did, in program order:
                                \* start, cb, settled, stop, exit

HandlerIds == 1..Len(handlers)

\* mutant: the listeners are registered before the type of cb is tested
OnExitRegistersFirst(cb, hasStop) ==
    /\ exitStatus = Null
    /\ Len(handlers) + onExitThrown < MaxHandlers
    /\ handlers' = Append(handlers, NewHandler(cb, hasStop))
    /\ listeners' = [s \in Signals |-> Append(listeners[s], Len(handlers) + 1)]
    /\ onExitThrown' = IF cb.type # "function" THEN onExitThrown + 1 ELSE onExitThrown
    /\ UNCHANGED <<exitStatus, log, signalsSent, runVars, trim, storeVars>>

\* onExit(cb): a non-function throws before anything is registered;
\* otherwise the handler is added to the three signals
Register(cb, hasStop) ==
    /\ exitStatus = Null
    /\ IF cb.type # "function"
       THEN /\ onExitThrown' = onExitThrown + 1
            /\ UNCHANGED <<handlers, listeners>>
       ELSE /\ handlers' = Append(handlers, NewHandler(cb, hasStop))
            /\ listeners' = [s \in Signals |-> Append(listeners[s], Len(handlers) + 1)]
            /\ UNCHANGED onExitThrown
    /\ UNCHANGED <<exitStatus, log, signalsSent, runVars, trim, storeVars>>

\* a call of onExit, as long as fewer than MaxHandlers calls were made
OnExit(cb, hasStop) ==
    /\ Len(handlers) + onExitThrown < MaxHandlers
    /\ Register(cb, hasStop)

\* mutant: the latch is never consulted
LatchedNever(hd) == FALSE

\* if (called) return;
Latched(hd) == hd.called

\* mutant: process.exit(0) is called before the spinner is stopped
FinallyExitsFirst(st, h) ==
    [st EXCEPT !.handlers[h].spinner = IF st.handlers[h].hasStop THEN "stopped" ELSE @,
               !.handlers[h].exitCalls = @ + 1,
               !.handlers[h].events =
                   @ \o <<"exit">> \o (IF st.handlers[h].hasStop THEN <<"stop">> ELSE <<>>),
               !.exitStatus = Some(0)]

\* finally { if (exiting && typeof exiting.stop === 'function') exiting.stop();
\*           process.exit(0); }
Finally(st, h) ==
    [st EXCEPT !.handlers[h].spinner = IF st.handlers[h].hasStop THEN "stopped" ELSE @,
               !.handlers[h].exitCalls = @ + 1,
               !.handlers[h].events =
                   @ \o (IF st.handlers[h].hasStop THEN <<"stop">> ELSE <<>>) \o <<"exit">>,
               !.exitStatus = Some(0)]

\* the handler after its await: catch logs a rejection, then finally
AfterAwait(st, h, rejected) ==
    Finally([st EXCEPT !.log = IF rejected THEN Append(@, h) ELSE @], h)

\* mutant: one latch for the whole process, set by whichever handler ran first
HandlerCallSharedLatch(st, h) ==
    IF st.exitStatus # Null THEN st
    ELSE IF \E g \in 1..Len(st.handlers) : st.handlers[g].called
    THEN [st EXCEPT !.handlers[h].entered = @ + 1]
    ELSE LET s1 == [st EXCEPT !.handlers[h].entered = @ + 1,
                              !.handlers[h].called = TRUE,
                              !.handlers[h].spinner = "spinning",
                              !.handlers[h].invoked = @ + 1,
                              !.handlers[h].events = @ \o <<"start", "cb">>]
             kind == st.handlers[h].cb
         IN  CASE kind = "throws" ->
                    AfterAwait([s1 EXCEPT !.handlers[h].cbState = "settled",
                                          !.handlers[h].events = Append(@, "settled")],
                               h, TRUE)
               [] kind \in {"returns", "rejected"} ->
                    [s1 EXCEPT !.handlers[h].cbState = "settled",
                               !.handlers[h].events = Append(@, "settled"),
                               !.micro = Append(@, h)]
               [] OTHER ->
                    [s1 EXCEPT !.handlers[h].cbState = "pending"]

\* one call of `handler` by the emitter, up to its await.  st holds the
\* handlers, the exit status, the log and the queue of handlers whose
\* awaited promise is already resolved.  Nothing runs once the process exited.
HandlerCall(st, h) ==
    IF st.exitStatus # Null THEN st
    ELSE IF Latched(st.handlers[h])
    THEN [st EXCEPT !.handlers[h].entered = @ + 1]
    ELSE LET s1 == [st EXCEPT !.handlers[h].entered = @ + 1,
                              !.handlers[h].called = TRUE,
                              !.handlers[h].spinner = "spinning",
                              !.handlers[h].invoked = @ + 1,
                              !.handlers[h].events = @ \o <<"start", "cb">>]
             kind == st.handlers[h].cb
         IN  CASE kind = "throws" ->
                    AfterAwait([s1 EXCEPT !.handlers[h].cbState = "settled",
                                          !.handlers[h].events = Append(@, "settled")],
                               h, TRUE)
               [] kind \in {"returns", "rejected"} ->
                    [s1 EXCEPT !.handlers[h].cbState = "settled",
                               !.handlers[h].events = Append(@, "settled"),
                               !.micro = Append(@, h)]
               [] OTHER ->
                    [s1 EXCEPT !.handlers[h].cbState = "pending"]

\* process.emit(signal): the listeners run in registration order
RECURSIVE EmitTo(_, _)
EmitTo(hs, st) ==
    IF hs = <<>> THEN st ELSE EmitTo(Tail(hs), HandlerCall(st, Head(hs)))

\* the microtasks queued during the emit run once it returns, in the
\* order the handlers reached their await
RECURSIVE DrainMicrotasks(_)
DrainMicrotasks(st) ==
    IF st.micro = <<>> \/ st.exitStatus # Null THEN st
    ELSE DrainMicrotasks(
             AfterAwait([st EXCEPT !.micro = Tail(@)], Head(st.micro),
                        st.handlers[Head(st.micro)].cb = "rejected"))

\* exit status of a process killed by a signal nobody listens to
KilledBy(sig) ==
    CASE sig = "SIGINT" -> 130 [] sig = "SIGQUIT" -> 131 [] OTHER -> 143

\* a termination signal reaches the process
Deliver(sig) ==
    /\ exitStatus = Null
    /\ signalsSent < MaxSignals
    /\ signalsSent' = signalsSent + 1
    /\ IF listeners[sig] = <<>>
       THEN /\ exitStatus' = Some(KilledBy(sig))
            /\ UNCHANGED <<handlers, log>>
       ELSE LET st == DrainMicrotasks(EmitTo(listeners[sig],
                          [handlers |-> handlers, exitStatus |-> exitStatus,
                           log |-> log, micro |-> <<>>]))
            IN  /\ handlers' = st.handlers
                /\ exitStatus' = st.exitStatus
                /\ log' = st.log
    /\ UNCHANGED <<listeners, onExitThrown, runVars, trim, storeVars>>

\* the promise a callback returned settles
Settle(h) ==
    /\ exitStatus = Null
    /\ handlers[h].cbState = "pending"
    /\ handlers[h].cb \in {"resolves", "rejects"}
    /\ LET st == AfterAwait([handlers |-> [handlers EXCEPT
                                              ![h].cbState = "settled",
                                              ![h].events = Append(@, "settled")],
                             exitStatus |-> exitStatus, log |-> log, micro |-> <<>>],
                            h, handlers[h].cb = "rejects")
       IN  /\ handlers' = st.handlers
           /\ exitStatus' = st.exitStatus
           /\ log' = st.log
    /\ UNCHANGED <<listeners, onExitThrown, signalsSent, runVars, trim, storeVars>>

\* process.off(signal, handler): the handler leaves the signal's listeners
RECURSIVE Without(_, _)
Without(hs, h) ==
    IF hs = <<>> THEN <<>>
    ELSE IF Head(hs) = h THEN Without(Tail(hs), h)
    ELSE <<Head(hs)>> \o Without(Tail(hs), h)

\* mutant: the disposer also resets the handler's latch and abandons its cleanup
DisposeUnfires(h) ==
    /\ exitStatus = Null
    /\ listeners' = [s \in Signals |-> Without(listeners[s], h)]
    /\ handlers' = [handlers EXCEPT ![h].called = FALSE, ![h].cbState = "idle"]
    /\ UNCHANGED <<exitStatus, log, onExitThrown, signalsSent, runVars, trim, storeVars>>

\* mutant: the disposer forgets the SIGQUIT listener
DisposeKeepsSigquit(h) ==
    /\ exitStatus = Null
    /\ listeners' = [s \in Signals |->
                        IF s = "SIGQUIT" THEN listeners[s] ELSE Without(listeners[s], h)]
    /\ UNCHANGED <<handlers, exitStatus, log, onExitThrown, signalsSent, runVars, trim, storeVars>>

\* the disposer onExit returned
Dispose(h) ==
    /\ exitStatus = Null
    /\ listeners' = [s \in Signals |-> Without(listeners[s], h)]
    /\ UNCHANGED <<handlers, exitStatus, log, onExitThrown, signalsSent, runVars, trim, storeVars>>

---------------------------------------------------------------------------
(* init(opts), save(key, value), load(key)                                 *)
(*                                                                         *)
(* The text of a config file is one of: the empty text, white space only,  *)
(* text that is not JSON, the JSON text null, or the JSON text of an       *)
(* object, written as the sequence of its [key, value] members in order.   *)
(* A JavaScript object is the sequence of its own properties in insertion  *)
(* order.                                                                  *)

\* path.join(dir, 'config.json') and a path given to init
DefaultPath == "config.json"
CustomPath == "custom.json"
Paths == {DefaultPath, CustomPath}

\* non-empty strings passed as `key`; __proto__ names the accessor that
\* every plain object inherits from Object.prototype
ProtoKey == "__proto__"
StoreKeys == {"a", "b", ProtoKey}

\* values passed as `key`
KeyChoices ==
    {[type |-> "string", val |-> k] : k \in StoreKeys \cup {""}}
        \cup {[type |-> "undefined", val |-> ""]}

\* values passed as `value`: two numbers, NaN and undefined
JsonValues == {"1", "2"}
SaveValues == JsonValues \cup {"NaN", "undefined"}

\* values passed as `opts` to init; configPath is null when opts has none
InitOptsChoices ==
    {[type |-> "undefined", configPath |-> Null],
     [type |-> "null", configPath |-> Null],
     [type |-> "array", configPath |-> Null],
     [type |-> "object", configPath |-> Null],
     [type |-> "object", configPath |-> Some([type |-> "string", val |-> CustomPath])],
     [type |-> "object", configPath |-> Some([type |-> "string", val |-> ""])],
     [type |-> "object", configPath |-> Some([type |-> "number", val |-> ""])]}

EmptyText == [kind |-> "empty", members |-> <<>>]
WhiteSpaceText == [kind |-> "whitespace", members |-> <<>>]
InvalidText == [kind |-> "invalid", members |-> <<>>]
NullText == [kind |-> "null", members |-> <<>>]
ObjectText(members) == [kind |-> "object", members |-> members]

\* no call yet
NoCall == [op |-> "none", key |-> "", outcome |-> "none", value |-> "undefined",
           stdinTTY |-> TRUE, stdoutTTY |-> TRUE, diagnostic |-> FALSE]

\* how a call ended: it returned value, or it threw
Outcome(op, key, outcome, value) ==
    [NoCall EXCEPT !.op = op, !.key = key.val, !.outcome = outcome, !.value = value]

\* _configPath(): the override if it is a non-empty string
ConfigPath == IF overridePath # Null /\ overridePath[1] # "" THEN overridePath[1]
              ELSE DefaultPath

\* typeof key !== 'string' || !key
InvalidKey(key) == key.type # "string" \/ key.val = ""

\* !txt.trim()
IsBlank(text) == text.kind \in {"empty", "whitespace"}

\* JSON.parse(txt) of an object text: the members become the properties
JsonParse(text) == text.members

\* JSON.stringify(cfg, null, 2): a property whose value is undefined is left
\* out, NaN is written as null
RECURSIVE JsonMembers(_)
JsonMembers(cfg) ==
    IF cfg = <<>> THEN <<>>
    ELSE LET p == Head(cfg)
         IN  (CASE p.value = "undefined" -> <<>>
                [] p.value = "NaN" -> <<[key |-> p.key, value |-> "null"]>>
                [] OTHER -> <<p>>) \o JsonMembers(Tail(cfg))

JsonStringify(cfg) == ObjectText(JsonMembers(cfg))

\* Object.prototype.hasOwnProperty.call(cfg, key)
HasOwnProperty(cfg, key) == \E i \in 1..Len(cfg) : cfg[i].key = key

\* cfg[key] of an own property
Get(cfg, key) == cfg[CHOOSE i \in 1..Len(cfg) : cfg[i].key = key].value

\* cfg[key] = value: an own property keeps its place, a new one is added
\* last; without an own property __proto__ the assignment goes to the
\* inherited setter, which adds no property (and ignores a primitive)
Set(cfg, key, value) ==
    IF HasOwnProperty(cfg, key)
    THEN [i \in 1..Len(cfg) |->
             IF cfg[i].key = key THEN [key |-> key, value |-> value] ELSE cfg[i]]
    ELSE IF key = ProtoKey THEN cfg
    ELSE Append(cfg, [key |-> key, value |-> value])

\* Object.keys(cfg)
ObjectKeys(cfg) == [i \in 1..Len(cfg) |-> cfg[i].key]

\* the order of the keys by UTF-16 code units, as Array.prototype.sort()
\* compares them: "_" is before "a" is before "b"
KeyRank(k) == CASE k = ProtoKey -> 1 [] k = "a" -> 2 [] k = "b" -> 3

RECURSIVE InsertSorted(_, _)
InsertSorted(k, sorted) ==
    IF sorted = <<>> THEN <<k>>
    ELSE IF KeyRank(k) < KeyRank(Head(sorted)) THEN <<k>> \o sorted
    ELSE <<Head(sorted)>> \o InsertSorted(k, Tail(sorted))

\* mutant: the keys are left in the order of the config file
SortUnsorted(keys) == keys

\* keys.sort()
RECURSIVE Sort(_)
Sort(keys) == IF keys = <<>> THEN <<>> ELSE InsertSorted(Head(keys), Sort(Tail(keys)))

\* tsTypeForValue(v) for the values of this model
tsTypeForValue(v) == IF v = "null" THEN "null" ELSE "number"

\* the lines of the interface StorageSchema, one per key
DeclarationLines(cfg) ==
    LET keys == Sort(ObjectKeys(cfg))
    IN  [i \in 1..Len(keys) |->
            [key |-> keys[i], type |-> tsTypeForValue(Get(cfg, keys[i]))]]

\* _writeGeneratedStorageTypes(configFile): the generated file after the
\* call (null: no such file).  save calls it after it wrote the config
\* file; an error in it is caught by save and leaves the generated file.
WriteGeneratedStorageTypes(configText, oldTypes) ==
    IF configText = Null THEN Null
    ELSE IF IsBlank(configText[1]) THEN Some(<<>>)
    ELSE IF configText[1].kind # "object" THEN oldTypes
    ELSE Some(DeclarationLines(JsonParse(configText[1])))

\* a call of init in a process whose stdin.isTTY and stdout.isTTY are as given
InitCall(outcome, stdinTTY, stdoutTTY) ==
    [NoCall EXCEPT !.op = "init", !.outcome = outcome,
                   !.stdinTTY = stdinTTY, !.stdoutTTY = stdoutTTY,
                   !.diagnostic = (outcome = "exit")]

\* mutant: only stdin is tested
NotInteractiveStdinOnly(stdinTTY, stdoutTTY) == ~stdinTTY

\* !process.stdin.isTTY || !process.stdout.isTTY
NotInteractive(stdinTTY, stdoutTTY) == ~stdinTTY \/ ~stdoutTTY

\* init(opts): validate opts, take over configPath, remove the generated
\* file, and without an interactive terminal print the diagnostic and end
\* the process with status 1
CallInit(opts, stdinTTY, stdoutTTY) ==
    /\ exitStatus = Null
    /\ IF opts.type \notin {"undefined", "object"}
           \/ (opts.configPath # Null /\ opts.configPath[1].type # "string")
       THEN /\ storeCall' = InitCall("TypeError", stdinTTY, stdoutTTY)
            /\ UNCHANGED <<typesFile, overridePath, exitStatus>>
       ELSE /\ overridePath' = IF opts.configPath # Null
                               THEN Some(opts.configPath[1].val) ELSE overridePath
            /\ typesFile' = Null
            /\ IF NotInteractive(stdinTTY, stdoutTTY)
               THEN /\ storeCall' = InitCall("exit", stdinTTY, stdoutTTY)
                    /\ exitStatus' = Some(1)
               ELSE /\ storeCall' = InitCall("returned", stdinTTY, stdoutTTY)
                    /\ UNCHANGED exitStatus
    /\ UNCHANGED <<files, runVars, handlers, listeners, log, onExitThrown,
                   signalsSent, trim>>

\* mutant: the file is rewritten as an empty object before it is parsed
SaveWritesFirst(key, value) ==
    /\ exitStatus = Null
    /\ LET file == ConfigPath
           text == files[file]
       IN  IF InvalidKey(key)
           THEN /\ storeCall' = Outcome("save", key, "TypeError", "undefined")
                /\ UNCHANGED <<files, typesFile>>
           ELSE IF text # Null /\ text[1].kind = "invalid"
           THEN /\ storeCall' = Outcome("save", key, "SyntaxError", "undefined")
                /\ files' = [files EXCEPT ![file] = Some(JsonStringify(<<>>))]
                /\ UNCHANGED typesFile
           ELSE IF text # Null /\ text[1].kind = "null"
           THEN /\ storeCall' = Outcome("save", key, "TypeError", "undefined")
                /\ UNCHANGED <<files, typesFile>>
           ELSE LET cfg == IF text = Null \/ IsBlank(text[1]) THEN <<>>
                           ELSE JsonParse(text[1])
                    written == Some(JsonStringify(Set(cfg, key.val, value)))
                IN  /\ files' = [files EXCEPT ![file] = written]
                    /\ typesFile' = WriteGeneratedStorageTypes(written, typesFile)
                    /\ storeCall' = Outcome("save", key, "returned", value)
    /\ UNCHANGED <<overridePath, runVars, exitVars, trim>>

\* save(key, value): a TypeError for the key; the error of JSON.parse; a
\* TypeError for the assignment to a property of null; else the object with
\* the property set is written, and the generated file after it
Save(key, value) ==
    /\ exitStatus = Null
    /\ LET file == ConfigPath
           text == files[file]
       IN  IF InvalidKey(key)
           THEN /\ storeCall' = Outcome("save", key, "TypeError", "undefined")
                /\ UNCHANGED <<files, typesFile>>
           ELSE IF text # Null /\ text[1].kind = "invalid"
           THEN /\ storeCall' = Outcome("save", key, "SyntaxError", "undefined")
                /\ UNCHANGED <<files, typesFile>>
           ELSE IF text # Null /\ text[1].kind = "null"
           THEN /\ storeCall' = Outcome("save", key, "TypeError", "undefined")
                /\ UNCHANGED <<files, typesFile>>
           ELSE LET cfg == IF text = Null \/ IsBlank(text[1]) THEN <<>>
                           ELSE JsonParse(text[1])
                    written == Some(JsonStringify(Set(cfg, key.val, value)))
                IN  /\ files' = [files EXCEPT ![file] = written]
                    /\ typesFile' = WriteGeneratedStorageTypes(written, typesFile)
                    /\ storeCall' = Outcome("save", key, "returned", value)
    /\ UNCHANGED <<overridePath, runVars, exitVars, trim>>

\* what load(key) does with the files as they are: a TypeError for the key;
\* undefined for a missing or blank file; the error of JSON.parse; a
\* TypeError of hasOwnProperty.call(null, key); else the own property or
\* undefined
Loaded(key) ==
    LET text == files[ConfigPath]
    IN  IF InvalidKey(key) THEN Outcome("load", key, "TypeError", "undefined")
        ELSE IF text = Null \/ IsBlank(text[1])
        THEN Outcome("load", key, "returned", "undefined")
        ELSE IF text[1].kind = "invalid"
        THEN Outcome("load", key, "SyntaxError", "undefined")
        ELSE IF text[1].kind = "null"
        THEN Outcome("load", key, "TypeError", "undefined")
        ELSE Outcome("load", key, "returned",
                     IF HasOwnProperty(JsonParse(text[1]), key.val)
                     THEN Get(JsonParse(text[1]), key.val) ELSE "undefined")

\* load(key)
Load(key) ==
    /\ exitStatus = Null
    /\ storeCall' = Loaded(key)
    /\ UNCHANGED <<files, typesFile, overridePath, runVars, exitVars, trim>>

---------------------------------------------------------------------------
(* Specifications *)

\* nothing was called yet
InitCalls ==
    /\ runs = [r \in RunIds |-> NewRun]
    /\ parentStdout = <<>>
    /\ parentStderr = <<>>
    /\ handlers = <<>>
    /\ listeners = [s \in Signals |-> <<>>]
    /\ exitStatus = Null
    /\ log = <<>>
    /\ onExitThrown = 0
    /\ signalsSent = 0

\* no config file, no generated file, no override
InitStore ==
    /\ files = [p \in Paths |-> Null]
    /\ typesFile = Null
    /\ overridePath = Null
    /\ storeCall = NoCall

Init ==
    /\ InitCalls
    /\ trim = [s |-> <<>>, n |-> 1, out |-> <<>>]
    /\ InitStore

\* the command runner
NextRun ==
    \E r \in RunIds :
        \/ \E c \in Commands, o \in OptsChoices, out \in BOOLEAN, err \in BOOLEAN :
               CallRun(r, c, o, out, err)
        \/ \E chunk \in ChunksLeft(runs[r], runs[r].chunksOut) : StdoutData(r, chunk)
        \/ \E chunk \in ChunksLeft(runs[r], runs[r].chunksErr) : StderrData(r, chunk)
        \/ \E e \in LaunchErrors : ChildError(r, e)
        \/ \E code \in ExitCodes : ChildClose(r, code)

Spec == Init /\ [][NextRun]_vars

\* the shutdown coordinator
NextExit ==
    \/ \E cb \in CbChoices, hasStop \in BOOLEAN : OnExit(cb, hasStop)
    \/ \E sig \in Signals : Deliver(sig)
    \/ \E h \in HandlerIds : Settle(h)
    \/ \E h \in HandlerIds : Dispose(h)

SpecExit == Init /\ [][NextExit]_vars

\* three registrations, so that a disposed handler has two neighbours; the
\* callbacks return, throw or return a promise that never settles
DisposeCbChoices == [type : {"function"}, kind : {"returns", "throws", "hangs"}]

NextDispose ==
    \/ \E cb \in DisposeCbChoices :
           /\ Len(handlers) + onExitThrown < MaxDisposeHandlers
           /\ Register(cb, TRUE)
    \/ \E sig \in Signals : Deliver(sig)
    \/ \E h \in HandlerIds : Dispose(h)

SpecDispose == Init /\ [][NextDispose]_vars

\* the command runner on a child that writes plain lines to stdout: more
\* bytes than in Spec, no carriage return, no multi-byte character
TextChunks(run) ==
    SeqsOfLen({"a", LF}, 1, MaxText - BytesEmitted(run))

NextText ==
    \E r \in RunIds :
        \/ \E n \in 1..MaxLinesBound :
               CallRun(r, [type |-> "string", val |-> <<"l", "s">>],
                       [maxLines |-> Some(n)], TRUE, TRUE)
        \/ \E chunk \in TextChunks(runs[r]) : StdoutData(r, chunk)
        \/ ChildClose(r, Some(0))

SpecText == Init /\ [][NextText]_vars

\* trimToLastNLines on its own: every string of carriage returns, newlines
\* and a letter, every n >= 1
TrimInputs ==
    {[s |-> s, n |-> n, out |-> <<>>] :
        s \in SeqsOfLen(AsciiBytes, 0, MaxTrimLen), n \in 1..MaxLinesBound}

InitTrim ==
    /\ InitCalls
    /\ trim \in TrimInputs
    /\ InitStore

\* the function is applied to s, then to its own result
ApplyTrim ==
    /\ Len(trim.out) < MaxTrimCalls
    /\ trim' = [trim EXCEPT !.out =
                    Append(@, trimToLastNLines(IF @ = <<>> THEN trim.s ELSE @[Len(@)],
                                               trim.n))]
    /\ UNCHANGED <<runVars, exitVars, storeVars>>

NextTrim == ApplyTrim

SpecTrim == InitTrim /\ [][NextTrim]_vars

\* two invocations of run in flight at once, their children writing plain
\* lines; the events of the two children interleave in any order
ConcRunIds == {1, 2}

InitConc ==
    /\ runs = [r \in ConcRunIds |-> NewRun]
    /\ parentStdout = <<>>
    /\ parentStderr = <<>>
    /\ handlers = <<>>
    /\ listeners = [s \in Signals |-> <<>>]
    /\ exitStatus = Null
    /\ log = <<>>
    /\ onExitThrown = 0
    /\ signalsSent = 0
    /\ trim = [s |-> <<>>, n |-> 1, out |-> <<>>]
    /\ InitStore

\* the chunks a child may emit next, within what the two have left
ConcChunks ==
    SeqsOfLen({"a", LF}, 1,
              MaxConcBytes - (BytesEmitted(runs[1]) + BytesEmitted(runs[2])))

\* the first run keeps one line, the second two
NextConc ==
    \E r \in ConcRunIds :
        \/ CallRun(r, [type |-> "string", val |-> <<"l", "s">>],
                   [maxLines |-> Some(r)], TRUE, TRUE)
        \/ \E chunk \in ConcChunks : StdoutData(r, chunk)
        \/ \E chunk \in ConcChunks : StderrData(r, chunk)
        \/ \E e \in LaunchErrors : ChildError(r, e)
        \/ ChildClose(r, Some(0))

SpecConc == InitConc /\ [][NextConc]_vars

\* the store before the program starts: the default config file is missing,
\* blank, not JSON or the text null, and a generated file may be left from
\* an earlier process
InitStoreFiles ==
    /\ InitCalls
    /\ trim = [s |-> <<>>, n |-> 1, out |-> <<>>]
    /\ \E text \in {Null, Some(EmptyText), Some(WhiteSpaceText),
                    Some(InvalidText), Some(NullText)} :
           files = [p \in Paths |-> IF p = DefaultPath THEN text ELSE Null]
    /\ typesFile \in {Null, Some(<<[key |-> "b", type |-> "number"]>>)}
    /\ overridePath = Null
    /\ storeCall = NoCall

NextStore ==
    \/ \E opts \in InitOptsChoices, stdinTTY \in BOOLEAN, stdoutTTY \in BOOLEAN :
           CallInit(opts, stdinTTY, stdoutTTY)
    \/ \E key \in KeyChoices, value \in SaveValues : Save(key, value)
    \/ \E key \in KeyChoices : Load(key)

SpecStore == InitStoreFiles /\ [][NextStore]_vars

\* the command runner called with options for spawn
NextOpts ==
    \E r \in RunIds :
        \/ \E o \in SpawnOptsChoices, out \in BOOLEAN, err \in BOOLEAN :
               CallRun(r, [type |-> "string", val |-> <<"l", "s">>], o, out, err)
        \/ \E code \in ExitCodes : ChildClose(r, code)

SpecOpts == Init /\ [][NextOpts]_vars

---------------------------------------------------------------------------
(* Notions the properties are stated with *)

\* the text of a stream: its chunks as strings, concatenated
RECURSIVE TextOf(_)
TextOf(chunks) ==
    IF chunks = <<>> THEN <<>> ELSE toString(Head(chunks)) \o TextOf(Tail(chunks))

\* number of "\n" in s
RECURSIVE CountLF(_)
CountLF(s) ==
    IF s = <<>> THEN 0 ELSE (IF Head(s) = LF THEN 1 ELSE 0) + CountLF(Tail(s))

\* number of lines of s: its newlines, and a last line without one
LineCount(s) ==
    CountLF(s) + (IF s # <<>> /\ s[Len(s)] # LF THEN 1 ELSE 0)

\* the lines of a text without carriage returns, trailing newlines aside
RECURSIVE DropTrailingLF(_)
DropTrailingLF(s) ==
    IF s # <<>> /\ s[Len(s)] = LF THEN DropTrailingLF(SubSeq(s, 1, Len(s) - 1)) ELSE s

RECURSIVE CutAtLF(_, _)
CutAtLF(s, cur) ==
    IF s = <<>> THEN <<cur>>
    ELSE IF Head(s) = LF THEN <<cur>> \o CutAtLF(Tail(s), <<>>)
    ELSE CutAtLF(Tail(s), Append(cur, Head(s)))

LinesOf(s) == CutAtLF(DropTrailingLF(s), <<>>)

\* a command run accepts: a string with a character that is not white space
ValidCommandValue(c) ==
    c.type = "string" /\ \E i \in 1..Len(c.val) : c.val[i] \notin WhiteSpace

\* the handler is a listener of some signal (registered and not disposed)
Attached(h) == \E s \in Signals : \E i \in 1..Len(listeners[s]) : listeners[s][i] = h

\* the handler is a listener of signal s
ListensTo(h, s) == \E i \in 1..Len(listeners[s]) : listeners[s][i] = h

\* the run resolved with the value its 'close' listener built
ResolvedByClose(run) == run.closed /\ run.childError = Null /\ run.pc = "resolved"

---------------------------------------------------------------------------
(* Properties *)

\* C1: the process is terminated by the shutdown path only once the
\* callbacks of all registered, non-disposed handlers have settled; it is
\* not terminated while a callback is pending.
ExitOnlyAfterAllSettled ==
    exitStatus = Some(0) =>
        \A h \in HandlerIds : Attached(h) => handlers[h].cbState = "settled"

OutputIsFullStream ==
    [][\A r \in RunIds :
          (runs[r].pc = "pending" /\ runs'[r].pc = "resolved") =>
              runs'[r].result[1].output =
                  TextOf(runs'[r].chunksOut) \o TextOf(runs'[r].chunksErr)]_vars

\* C4: for maxLines >= 1, the stdout and the stderr of a result resolved on
\* close each hold at most maxLines lines.
ClosedResultWithinMaxLines ==
    \A r \in RunIds :
        (ResolvedByClose(runs[r]) /\ runs[r].maxLines >= 1) =>
            /\ LineCount(runs[r].result[1].stdout) <= runs[r].maxLines
            /\ LineCount(runs[r].result[1].stderr) <= runs[r].maxLines

\* C4 witness: at close the capture buffer held more than maxLines lines
\* (the check while streaming had not trimmed it) and the result holds maxLines
FinalTrimDropsLines ==
    \E r \in RunIds :
        /\ ResolvedByClose(runs[r]) /\ runs[r].maxLines >= 1
        /\ LineCount(runs[r].stdout) > runs[r].maxLines
        /\ LineCount(runs[r].result[1].stdout) = runs[r].maxLines

\* C5: for N >= 1 and a stdout stream of L lines, the stdout returned on
\* close holds all the lines if L <= N and exactly the last N lines if L > N.
LastNLinesRetained ==
    \A r \in RunIds :
        (ResolvedByClose(runs[r]) /\ runs[r].maxLines >= 1) =>
            LET all  == LinesOf(TextOf(runs[r].chunksOut))
                kept == LinesOf(runs[r].result[1].stdout)
                N    == runs[r].maxLines
            IN  IF Len(all) <= N THEN kept = all
                ELSE kept = SubSeq(all, Len(all) - N + 1, Len(all))

\* C6: once the child emitted 'error', run has resolved (not rejected) with
\* code null, isError true and error the emitted failure.
LaunchFailureResolves ==
    \A r \in RunIds :
        runs[r].childError # Null =>
            /\ runs[r].pc = "resolved"
            /\ runs[r].thrown = Null
            /\ runs[r].result[1].code = Null
            /\ runs[r].result[1].isError
            /\ runs[r].result[1].error = runs[r].childError

\* C6 witness: the child emitted 'error' after some output, and is not closed
LaunchFailureSeen ==
    \E r \in RunIds :
        /\ runs[r].childError # Null /\ ~runs[r].closed
        /\ runs[r].chunksOut # <<>>
        /\ runs[r].pc = "resolved"

\* C7: a child closed with exit code c resolves run with code c and error
\* null, and isError is true exactly when c is not 0.
CloseResolvesWithCode ==
    \A r \in RunIds :
        (runs[r].closed /\ runs[r].childError = Null /\ runs[r].closeCode # Null) =>
            /\ runs[r].pc = "resolved"
            /\ runs[r].result[1].code = runs[r].closeCode
            /\ runs[r].result[1].error = Null
            /\ runs[r].result[1].isError <=> runs[r].closeCode # Some(0)

\* C7 witness: a child closed with a non-zero code after writing to stderr
NonZeroExitResolved ==
    \E r \in RunIds :
        /\ ResolvedByClose(runs[r]) /\ runs[r].closeCode = Some(3)
        /\ runs[r].chunksErr # <<>>
        /\ runs[r].result[1].isError

InvalidCommandRejectsBeforeSpawn ==
    \A r \in RunIds :
        (runs[r].pc # "idle" /\ ~ValidCommandValue(runs[r].command[1])) =>
            /\ runs[r].pc = "rejected"
            /\ runs[r].thrown = Some("TypeError")
            /\ runs[r].spawned = 0
            /\ parentStdout = <<>> /\ parentStderr = <<>>

\* C9 witness: a white-space-only command was rejected
WhitespaceCommandRejected ==
    \E r \in RunIds :
        /\ runs[r].pc = "rejected"
        /\ runs[r].command[1].type = "string"
        /\ runs[r].command[1].val # <<>>

\* the writes to a parent stream are the chunks of the child's stream, one
\* write per chunk, in order, byte for byte
WritesAreChunks(writes, chunks) ==
    /\ Len(writes) = Len(chunks)
    /\ \A i \in 1..Len(writes) : Utf8Bytes(writes[i]) = chunks[i]

\* C10: the writes to the parent's stdout are exactly the chunks received on
\* the child's stdout, in order and one per chunk, and likewise for stderr.
PassThroughVerbatim ==
    \A r \in RunIds :
        /\ WritesAreChunks(parentStdout, runs[r].chunksOut)
        /\ WritesAreChunks(parentStderr, runs[r].chunksErr)


\* C11: the disposer removes the handler's listener from all three signals;
\* a handler disposed before any signal reached it is never run by a later
\* delivery of SIGINT, SIGTERM or SIGQUIT, and a further call of the
\* disposer changes nothing.
DisposerDetaches ==
    [][\A h \in HandlerIds :
          /\ Dispose(h) => \A s \in Signals : ~ListensTo(h, s)'
          /\ (~Attached(h) /\ handlers[h].entered = 0) =>
                 /\ handlers'[h] = handlers[h]
                 /\ ~Attached(h)'
          /\ ~Attached(h) =>
                 [s \in Signals |-> Without(listeners[s], h)] = listeners]_vars

\* C11 witness: a signal was delivered after a handler was disposed; it ran
\* the other handler and not the disposed one
SignalAfterDispose ==
    \E h, g \in HandlerIds :
        /\ ~Attached(h) /\ handlers[h].entered = 0
        /\ signalsSent >= 1 /\ handlers[g].invoked = 1


\* number of entries of the log written by handler h
RECURSIVE LoggedBy(_, _)
LoggedBy(lg, h) ==
    IF lg = <<>> THEN 0 ELSE (IF Head(lg) = h THEN 1 ELSE 0) + LoggedBy(Tail(lg), h)

\* C12: once a callback has thrown or its promise has rejected, the error
\* has been logged once by its handler and the handler has terminated the
\* process with status 0.
CallbackErrorLoggedThenExit ==
    \A h \in HandlerIds :
        (handlers[h].cb \in {"throws", "rejected", "rejects"}
            /\ handlers[h].cbState = "settled") =>
                /\ LoggedBy(log, h) = 1
                /\ handlers[h].exitCalls = 1
                /\ exitStatus = Some(0)


\* C13: a handler a signal was delivered to, whose callback has settled
\* (returned, thrown, resolved or rejected), calls process.exit(0), whatever
\* its progress indicator looks like: once the process has ended, every
\* handler whose callback settled has made its call.
SettledHandlerCallsExit ==
    \A h \in HandlerIds :
        (exitStatus # Null /\ handlers[h].cbState = "settled") =>
            /\ handlers[h].exitCalls = 1
            /\ exitStatus = Some(0)


\* C14: when a termination signal is delivered, the callback of every
\* handler that is registered and not disposed at that moment has been
\* invoked once the delivery is over.
EveryAttachedHandlerInvoked ==
    [][signalsSent' = signalsSent + 1 =>
          \A h \in HandlerIds : Attached(h) => handlers'[h].invoked >= 1]_vars


DisposeAfterSignalKeepsCleanup ==
    [][\A h \in HandlerIds :
          /\ (handlers[h].called /\ Dispose(h)) =>
                 (handlers' = handlers /\ exitStatus' = exitStatus /\ log' = log)
          /\ (handlers[h].called /\ ~Attached(h) /\ handlers[h].cbState = "pending"
                 /\ handlers[h].cb \in {"resolves", "rejects"}) =>
                 ENABLED Settle(h)
          /\ (handlers[h].called /\ ~Attached(h) /\ handlers[h].cbState = "pending"
                 /\ handlers'[h].cbState = "settled") =>
                 (handlers'[h].exitCalls = 1 /\ exitStatus' = Some(0))]_vars

\* C16 witness: a handler disposed while its callback was pending has
\* settled and ended the process
DisposedHandlerExited ==
    \E h \in HandlerIds :
        /\ handlers[h].called /\ ~Attached(h)
        /\ handlers[h].cb \in {"resolves", "rejects"}
        /\ handlers[h].cbState = "settled" /\ handlers[h].exitCalls = 1
        /\ exitStatus = Some(0)


\* C17: onExit called with a value that is not a function throws, and the
\* call that throws registers nothing: the listeners of SIGINT, SIGTERM and
\* SIGQUIT and the handlers (with their progress indicators) are unchanged.
NonFunctionRegistersNothing ==
    [][/\ \A cb \in CbChoices, hasStop \in BOOLEAN :
             (cb.type # "function" /\ OnExit(cb, hasStop)) =>
                 /\ onExitThrown' = onExitThrown + 1
                 /\ listeners' = listeners
                 /\ handlers' = handlers
       /\ onExitThrown' # onExitThrown =>
             (listeners' = listeners /\ handlers' = handlers)]_vars

\* C17 witness: onExit threw while a handler was registered and listening
OnExitThrewBesideHandler ==
    /\ onExitThrown >= 1
    /\ \E h \in HandlerIds : Attached(h) /\ handlers[h].spinner = "none"


\* a is an initial part of b
IsPrefix(a, b) == Len(a) <= Len(b) /\ a = SubSeq(b, 1, Len(a))

\* one complete cleanup pass of a handler
CleanupPass(hd) ==
    <<"start", "cb", "settled">> \o (IF hd.hasStop THEN <<"stop">> ELSE <<>>) \o <<"exit">>

\* C18: in a cleanup pass the progress indicator is started before the
\* callback is invoked, it is stopped only after the callback has settled,
\* and process.exit(0) is called only after the indicator was stopped or has
\* no stop operation; a handler never calls process.exit before its own
\* callback has settled.
CleanupPassInOrder ==
    \A h \in HandlerIds :
        /\ IsPrefix(handlers[h].events, CleanupPass(handlers[h]))
        /\ handlers[h].exitCalls > 0 =>
               /\ handlers[h].cbState = "settled"
               /\ handlers[h].spinner = IF handlers[h].hasStop THEN "stopped" ELSE "spinning"

\* C18 witness: a handler whose callback's promise settled later has
\* stopped its progress indicator and ended the process
CleanupPassCompleted ==
    \E h \in HandlerIds :
        /\ handlers[h].cb = "resolves" /\ handlers[h].hasStop
        /\ handlers[h].events = <<"start", "cb", "settled", "stop", "exit">>


\* C19: the options run passes to spawn are { shell: true, stdio: 'pipe' }
\* overridden by every field of the caller's opts except maxLines: shell and
\* stdio of the caller win, the other fields are passed unchanged, and
\* maxLines is not among the spawn options.
SpawnOptionsMerged ==
    \A r \in RunIds :
        runs[r].spawned > 0 =>
            LET given == runs[r].opts[1]
                used  == runs[r].spawnOpts[1]
            IN  /\ DOMAIN used = {"shell", "stdio"} \cup (DOMAIN given \ {"maxLines"})
                /\ \A k \in DOMAIN given \ {"maxLines"} : used[k] = given[k]
                /\ "shell" \notin DOMAIN given => used["shell"] = "true"
                /\ "stdio" \notin DOMAIN given => used["stdio"] = "pipe"
                /\ "maxLines" \notin DOMAIN used

\* C19 witness: spawn was called for a caller that gave maxLines, its own
\* shell and a cwd, and left stdio out
SpawnedWithCallerShell ==
    \E r \in RunIds :
        /\ runs[r].spawned > 0
        /\ runs[r].opts[1]["maxLines"] = Some(1)
        /\ DOMAIN runs[r].opts[1] = {"maxLines", "shell", "cwd"}
        /\ runs[r].spawnOpts[1]["shell"] = "false"
        /\ runs[r].spawnOpts[1]["stdio"] = "pipe"


\* C20: the last-N-lines trim is idempotent: for every string s and every
\* N >= 1, trimming the trimmed string again with the same N returns it
\* unchanged.
TrimIsIdempotent ==
    \A i \in 2..Len(trim.out) : trim.out[i] = trim.out[1]


\* the line separators of s in order, each "CRLF" or "LF"
RECURSIVE Separators(_)
Separators(s) ==
    IF s = <<>> THEN <<>>
    ELSE IF Len(s) >= 2 /\ s[1] = CR /\ s[2] = LF
         THEN <<"CRLF">> \o Separators(SubSeq(s, 3, Len(s)))
    ELSE IF s[1] = LF THEN <<"LF">> \o Separators(Tail(s))
    ELSE Separators(Tail(s))

\* the number of newlines ("\n" or "\r\n") s ends with
RECURSIVE TrailingNewlines(_)
TrailingNewlines(s) ==
    IF s = <<>> \/ s[Len(s)] # LF THEN 0
    ELSE IF Len(s) >= 2 /\ s[Len(s) - 1] = CR
         THEN 1 + TrailingNewlines(SubSeq(s, 1, Len(s) - 2))
    ELSE 1 + TrailingNewlines(SubSeq(s, 1, Len(s) - 1))

\* s without the newlines it ends with
RECURSIVE WithoutTrailingNewlines(_)
WithoutTrailingNewlines(s) ==
    IF s = <<>> \/ s[Len(s)] # LF THEN s
    ELSE IF Len(s) >= 2 /\ s[Len(s) - 1] = CR
         THEN WithoutTrailingNewlines(SubSeq(s, 1, Len(s) - 2))
    ELSE WithoutTrailingNewlines(SubSeq(s, 1, Len(s) - 1))

\* a is a final part of b
IsSuffix(a, b) == Len(a) <= Len(b) /\ a = SubSeq(b, Len(b) - Len(a) + 1, Len(b))

\* C21: for every buffer and every N >= 1, the separators between the lines
\* the trim retains are the separators the input had between those lines:
\* a CRLF between two retained lines is still a CRLF in the result, whether
\* lines are dropped or not.
RetainedSeparatorsSurvive ==
    Len(trim.out) >= 1 =>
        LET body   == WithoutTrailingNewlines(trim.s)
            result == IF TrailingNewlines(trim.s) > 0
                      THEN SubSeq(trim.out[1], 1, Len(trim.out[1]) - 1)
                      ELSE trim.out[1]
        IN  IsSuffix(Separators(result), Separators(body))

\* C22: the result of the trim ends with exactly one newline if the input
\* ended in one or more newlines and with none if it did not; a buffer of
\* newlines only trims to a single newline.
TrailingNewlineRule ==
    Len(trim.out) >= 1 =>
        /\ TrailingNewlines(trim.out[1]) = IF TrailingNewlines(trim.s) > 0 THEN 1 ELSE 0
        /\ (trim.s # <<>> /\ WithoutTrailingNewlines(trim.s) = <<>>) => trim.out[1] = <<LF>>


\* C23: a run whose child has no stdout or no stderr, or whose stream stays
\* silent, does not throw, and the field captured from a stream without data
\* is the empty string; with no data on either stream and exit status 0 the
\* result has stdout, stderr and output empty, isError false and no error.
SilentStreamsGiveEmptyFields ==
    \A r \in RunIds :
        runs[r].spawned > 0 =>
            /\ runs[r].thrown = Null
            /\ runs[r].pc \in {"pending", "resolved"}
            /\ runs[r].pc = "resolved" =>
                   /\ runs[r].chunksOut = <<>> => runs[r].result[1].stdout = <<>>
                   /\ runs[r].chunksErr = <<>> => runs[r].result[1].stderr = <<>>
                   /\ (runs[r].chunksOut = <<>> /\ runs[r].chunksErr = <<>>
                          /\ ResolvedByClose(runs[r]) /\ runs[r].closeCode = Some(0)) =>
                          /\ runs[r].result[1].output = <<>>
                          /\ ~runs[r].result[1].isError
                          /\ runs[r].result[1].error = Null

\* C23 witness: a child without stdout and with a silent stderr ended with
\* status 0 and the run resolved
AbsentAndSilentResolved ==
    \E r \in RunIds :
        /\ ResolvedByClose(runs[r]) /\ runs[r].closeCode = Some(0)
        /\ ~runs[r].hasStdout /\ runs[r].hasStderr
        /\ runs[r].chunksErr = <<>>


\* the capture buffer after the chunks of a stream, in order
RECURSIVE Replay(_, _, _)
Replay(buf, chunks, maxLines) ==
    IF chunks = <<>> THEN buf
    ELSE Replay(Capture(buf, toString(Head(chunks)), maxLines), Tail(chunks), maxLines)

\* C24: with two runs in flight and their events interleaved in any order,
\* each run's buffers and result are those its own child's events alone
\* produce under its own maxLines, and each run is resolved exactly when its
\* own child has emitted 'error' or 'close'.
ConcurrentRunsIndependent ==
    \A r \in DOMAIN runs :
        runs[r].spawned > 0 =>
            /\ runs[r].stdout = Replay(<<>>, runs[r].chunksOut, runs[r].maxLines)
            /\ runs[r].stderr = Replay(<<>>, runs[r].chunksErr, runs[r].maxLines)
            /\ runs[r].pc = IF runs[r].closed \/ runs[r].childError # Null
                            THEN "resolved" ELSE "pending"
            /\ ResolvedByClose(runs[r]) =>
                   runs[r].result[1] =
                       CloseResult(Replay(<<>>, runs[r].chunksOut, runs[r].maxLines),
                                   Replay(<<>>, runs[r].chunksErr, runs[r].maxLines),
                                   runs[r].closeCode, runs[r].maxLines)
            /\ runs[r].childError # Null =>
                   \E i \in 0..Len(runs[r].chunksOut), j \in 0..Len(runs[r].chunksErr) :
                       runs[r].result[1] =
                           ErrorResult(
                               Replay(<<>>, SubSeq(runs[r].chunksOut, 1, i), runs[r].maxLines),
                               Replay(<<>>, SubSeq(runs[r].chunksErr, 1, j), runs[r].maxLines),
                               runs[r].childError[1])

\* C24 witness: both runs resolved on close after both children wrote to
\* stdout, and the first run's output was trimmed to its own maxLines
TwoRunsInterleaved ==
    /\ DOMAIN runs = ConcRunIds
    /\ \A r \in ConcRunIds : ResolvedByClose(runs[r]) /\ runs[r].chunksOut # <<>>
    /\ runs[1].maxLines # runs[2].maxLines
    /\ runs[1].result[1].stdout # TextOf(runs[1].chunksOut)


\* C25: in every result, code is null exactly when error is populated: a
\* result produced by the 'close' event has an integer code and no error,
\* and a result with a null code carries the launch failure in error.
CodeNullIffError ==
    \A r \in RunIds :
        runs[r].pc = "resolved" =>
            /\ runs[r].result[1].code = Null <=> runs[r].result[1].error # Null
            /\ ResolvedByClose(runs[r]) =>
                   (runs[r].result[1].code # Null /\ runs[r].result[1].error = Null)


\* C26: in every result resolved on the child's termination, output is the
\* returned stdout followed by the returned stderr.
OutputIsStdoutThenStderr ==
    \A r \in RunIds :
        ResolvedByClose(runs[r]) =>
            runs[r].result[1].output =
                runs[r].result[1].stdout \o runs[r].result[1].stderr


\* C27: last write wins.  A save(k, v) of a JSON value v that returns makes
\* load(k) return v, and leaves what load returns for every other key.
LastWriteWins ==
    [][\A key \in KeyChoices, value \in JsonValues :
          (Save(key, value) /\ storeCall'.outcome = "returned")
              => /\ Loaded(key)'.outcome = "returned"
                 /\ Loaded(key)'.value = value
                 /\ \A other \in KeyChoices :
                        (~InvalidKey(other) /\ other # key)
                            => Loaded(other)'.value = Loaded(other).value]_vars


\* C28: a failing save or load leaves the store as it was.  A call with a
\* key that is no non-empty string throws a TypeError, whatever the file
\* holds; a call with a proper key on a file that is not JSON throws the
\* error of the parser; and a call that throws leaves every file as it was.
FailedCallLeavesStore ==
    [][storeCall'.op \in {"save", "load"}
          => /\ storeCall'.key = "" => storeCall'.outcome = "TypeError"
             /\ (storeCall'.key # "" /\ files[ConfigPath] = Some(InvalidText))
                    => storeCall'.outcome = "SyntaxError"
             /\ storeCall'.outcome # "returned" => files' = files]_vars

\* a save with a proper key has failed on a file that is not JSON
SaveFailedOnInvalidJson ==
    /\ storeCall.op = "save"
    /\ storeCall.key = "a"
    /\ storeCall.outcome = "SyntaxError"
    /\ files[ConfigPath] = Some(InvalidText)

\* the config file holds no own property key: there is no file, or its
\* text is blank, or its JSON value has no such member
DoesNotContain(key) ==
    LET text == files[ConfigPath]
    IN  \/ text = Null
        \/ IsBlank(text[1])
        \/ text[1].kind = "null"
        \/ text[1].kind = "object" /\ ~HasOwnProperty(JsonParse(text[1]), key)

\* C29: load never fails for missing data.  A load with a proper key, of a
\* config file that is missing, blank or without the key, returns undefined
\* and leaves every file as it was.
LoadOfMissingDataIsUndefined ==
    [][(storeCall'.op = "load" /\ storeCall'.key # "" /\ DoesNotContain(storeCall'.key))
          => /\ storeCall'.outcome = "returned"
             /\ storeCall'.value = "undefined"
             /\ files' = files]_vars

\* the keys of the lines of the generated file
DeclaredKeys == [i \in 1..Len(typesFile[1]) |-> typesFile[1][i].key]

InitExitsIffNotInteractive ==
    storeCall.op = "init"
        => (exitStatus = Some(1) <=> ~(storeCall.stdinTTY /\ storeCall.stdoutTTY))

\* C31: the terminal guard.  A call of init whose opts pass the validation
\* has printed the diagnostic and ended the process with status 1 exactly if
\* stdin or stdout was no interactive terminal; a call that threw the
\* TypeError for opts has done neither; no call of init ends the process
\* when both are interactive terminals.
TerminalGuard ==
    storeCall.op = "init"
        => /\ storeCall.outcome # "TypeError"
                => /\ exitStatus = Some(1)
                       <=> ~(storeCall.stdinTTY /\ storeCall.stdoutTTY)
                   /\ storeCall.diagnostic
                       <=> ~(storeCall.stdinTTY /\ storeCall.stdoutTTY)
                   /\ exitStatus \in {Null, Some(1)}
           /\ storeCall.outcome = "TypeError"
                => exitStatus = Null /\ ~storeCall.diagnostic
           /\ (storeCall.stdinTTY /\ storeCall.stdoutTTY) => exitStatus = Null

\* init has ended the process because only stdout was no terminal
InitExitedForStdout ==
    /\ storeCall.op = "init"
    /\ storeCall.stdinTTY
    /\ ~storeCall.stdoutTTY
    /\ storeCall.diagnostic
    /\ exitStatus = Some(1)


\* C32: for maxLines >= 1, the stdout and the stderr of every result, also
\* of one resolved on the 'error' event after chunks were received, each
\* hold at most maxLines lines.
EveryResultWithinMaxLines ==
    \A r \in RunIds :
        (runs[r].pc = "resolved" /\ runs[r].maxLines >= 1) =>
            /\ LineCount(runs[r].result[1].stdout) <= runs[r].maxLines
            /\ LineCount(runs[r].result[1].stderr) <= runs[r].maxLines


\* C33: bounded retention while streaming.  For maxLines >= 1, after every
\* data handler the stdout buffer and the stderr buffer each hold at most
\* maxLines newlines, however many chunks and newlines were received.
BuffersWithinMaxLines ==
    \A r \in RunIds :
        runs[r].maxLines >= 1 =>
            /\ CountLF(runs[r].stdout) <= runs[r].maxLines
            /\ CountLF(runs[r].stderr) <= runs[r].maxLines

\* the child has written more than maxLines newlines to stdout, in more
\* than one chunk, and the run is still pending
TrimmedWhileStreaming ==
    \E r \in RunIds :
        /\ runs[r].pc = "pending"
        /\ runs[r].maxLines >= 1
        /\ Len(runs[r].chunksOut) >= 2
        /\ CountLF(TextOf(runs[r].chunksOut)) > runs[r].maxLines


\* C34: one result per run, fixed by the first 'close' or 'error' of its
\* child.  A resolved run stays resolved with the same result whatever
\* arrives later; a pending run is resolved in the step of the first of the
\* two events, and in no other step.
OneResultAtFirstEvent ==
    [][\A r \in RunIds :
          LET event == runs'[r].childError # runs[r].childError
                          \/ runs'[r].closed # runs[r].closed
          IN  /\ runs[r].pc = "resolved"
                    => runs'[r].pc = "resolved" /\ runs'[r].result = runs[r].result
              /\ (runs[r].pc = "pending" /\ event)
                    => runs'[r].pc = "resolved" /\ runs'[r].result # Null
              /\ (runs[r].pc = "pending" /\ ~event)
                    => runs'[r].pc = "pending" /\ runs'[r].result = Null
              /\ runs[r].pc = "pending"
                    => runs[r].childError = Null /\ ~runs[r].closed]_vars

\* a run resolved on 'error' has since received a chunk and the 'close' of
\* its child, and still holds the result of the 'error'
LaterEventsAfterResult ==
    \E r \in RunIds :
        /\ runs[r].pc = "resolved"
        /\ runs[r].childError # Null
        /\ runs[r].closed
        /\ runs[r].result[1].error = runs[r].childError
        /\ runs[r].result[1].stdout # runs[r].stdout


\* C35: chunking independence.  For maxLines >= 1, the stdout and the
\* stderr of a result resolved on close are trimToLastNLines applied once to
\* the whole text the stream delivered, however it was cut into chunks.
ChunkingIndependent ==
    \A r \in RunIds :
        (ResolvedByClose(runs[r]) /\ runs[r].maxLines >= 1) =>
            /\ runs[r].result[1].stdout
                   = trimToLastNLines(TextOf(runs[r].chunksOut), runs[r].maxLines)
            /\ runs[r].result[1].stderr
                   = trimToLastNLines(TextOf(runs[r].chunksErr), runs[r].maxLines)


\* C36: the disposer of one handler leaves the other registrations as they
\* are.  In a step of the disposer of h every other handler keeps its
\* closure state, latch included, and its place on each of the three
\* signals; and when a signal is then delivered, every handler that is
\* attached to it with its latch not set, beside a disposed one, has its
\* callback invoked exactly once.
DisposeLeavesOthers ==
    [][/\ \A h \in HandlerIds :
              Dispose(h) =>
                  /\ handlers' = handlers
                  /\ \A s \in Signals : listeners'[s] = Without(listeners[s], h)
                  /\ \A g \in HandlerIds \ {h} : \A s \in Signals :
                         ListensTo(g, s)' <=> ListensTo(g, s)
       /\ \A sig \in Signals :
              (signalsSent' = signalsSent + 1 /\ Deliver(sig)) =>
                  \A g \in HandlerIds :
                      (/\ ListensTo(g, sig)
                       /\ ~handlers[g].called
                       /\ \E h \in HandlerIds \ {g} : ~Attached(h))
                          => handlers'[g].invoked = handlers[g].invoked + 1]_vars


\* C37: registering a handler only attaches its listener.  A call of onExit
\* with a function adds one handler, last on each of the three signals, with
\* its callback not invoked, no progress indicator and no call of
\* process.exit, and changes nothing else; and as long as no signal was
\* delivered, no callback was invoked, no progress indicator exists and the
\* process has not exited.
RegistrationOnlyAttaches ==
    [][/\ Len(handlers') > Len(handlers)
           => LET h == Len(handlers')
              IN  /\ h = Len(handlers) + 1
                  /\ SubSeq(handlers', 1, Len(handlers)) = handlers
                  /\ \A s \in Signals : listeners'[s] = Append(listeners[s], h)
                  /\ ~handlers'[h].called
                  /\ handlers'[h].entered = 0
                  /\ handlers'[h].invoked = 0
                  /\ handlers'[h].spinner = "none"
                  /\ handlers'[h].exitCalls = 0
                  /\ UNCHANGED <<exitStatus, log, signalsSent, onExitThrown, runVars>>
       /\ signalsSent' = 0
           => /\ exitStatus' = Null
              /\ log' = <<>>
              /\ \A h \in 1..Len(handlers') :
                     /\ handlers'[h].invoked = 0
                     /\ handlers'[h].spinner = "none"
                     /\ handlers'[h].exitCalls = 0]_vars

\* two handlers are registered on the three signals and no signal was
\* delivered yet
RegisteredBeforeAnySignal ==
    /\ signalsSent = 0
    /\ Len(handlers) = 2
    /\ \A h \in HandlerIds : \A s \in Signals : ListensTo(h, s)
    /\ exitStatus = Null


\* C38: the bound at maxLines = 0.  A run called with maxLines 0 is
\* accepted, and the stdout and the stderr of its result on close hold at
\* most 0 lines: no line of the child's output.
NothingRetainedAtZero ==
    \A r \in RunIds :
        (ResolvedByClose(runs[r]) /\ runs[r].opts[1].maxLines = Some(0)) =>
            /\ LineCount(runs[r].result[1].stdout) <= 0
            /\ LineCount(runs[r].result[1].stderr) <= 0

===========================================================================
